---- MODULE Spec2Model ----
(***************************************************************************)
(* Model of ffi-convert/src/types.rs: the boundary types CStringArray,     *)
(* CArray<T> and CRange<T> with their CReprOf (construct), AsRust          *)
(* (restore) and CDrop (release) implementations, over an explicit heap.   *)
(*                                                                         *)
(* One behaviour is the life of one boundary value: it is constructed from *)
(* a native value, read back any number of times, possibly overwritten by  *)
(* the foreign side (its fields are pub and #[repr(C)]), released, and     *)
(* finally goes out of scope.                                              *)
(***************************************************************************)
EXTENDS Integers, Sequences, FiniteSets, TLC

VARIABLES
    pc,         \* where the boundary value is in its life
    kind,       \* which adapter the value is an instance of
    input,      \* the native value handed to c_repr_of
    cval,       \* the boundary struct: [data, size]
    heap,       \* the heap: address i is heap[i] = [tag, cells, frees]
    restored,   \* <<>> or <<r>>, r the result of the last as_rust
    lastOp,     \* the operation that ran last
    attempted,  \* indices CStringArray::do_drop called from_raw_pointer on
    dropResult, \* what the last do_drop returned
    tampered,   \* the foreign side overwrote an element pointer
    released    \* number of explicit do_drop calls

vars == <<pc, kind, input, cval, heap, restored, lastOp, attempted,
          dropResult, tampered, released>>

----------------------------------------------------------------------------
(* Bounds of the model *)

MaxLen == 3     \* longest Vec<String> / Vec<Range<i32>>
MaxOuter == 2   \* longest Vec<Vec<String>>
MaxInner == 1   \* longest inner Vec<String> of a Vec<Vec<String>>
WideSpan == 1   \* how far around each power-of-two boundary lengths are taken

----------------------------------------------------------------------------
(* Pointers and heap *)

Null == 0
Dangling == -1

NoValue == [data |-> Null, size |-> 0]

Alloc(h, tag, cells) == Append(h, [tag |-> tag, cells |-> cells, frees |-> 0])

Free(h, a) == [h EXCEPT ![a].frees = @ + 1]

----------------------------------------------------------------------------
(* Native values *)

\* Text values as byte strings; byte 0 is NUL.
Texts == {<<>>, <<1>>, <<1, 2>>, <<2, 0, 1>>}

HasNul(s) == \E i \in 1..Len(s) : s[i] = 0

I32Max == 2147483647
I32Min == -I32Max - 1
Ints == {I32Min, 0, I32Max}
Ranges == Ints \X Ints

SeqsUpTo(S, n) == UNION {[1..k -> S] : k \in 0..n}

----------------------------------------------------------------------------
(* Integer widths.  A Vec length is a usize; it is written here as two     *)
(* 16-bit limbs <<hi, lo>> (value hi * 2^16 + lo) so that lengths beyond   *)
(* the range of c_int can be written down.                                 *)

CIntBits == 32
Limb == 2 ^ (CIntBits \div 2)

Limbs(n) == <<n \div Limb, n % Limb>>

CIntMax == (Limb \div 2 - 1) * Limb + (Limb - 1)

\* The length <<hi, lo>> is at most c_int::MAX.
FitsCInt(len) == len[1] < Limb \div 2

\* `input.len() as libc::c_int`: keeps the low CIntBits bits, read as signed.
AsCInt(len) ==
    LET h == len[1] % Limb
    IN  IF h >= Limb \div 2 THEN (h - Limb) * Limb + len[2] ELSE h * Limb + len[2]

\* `i32::c_repr_of` and `i32::as_rust` of conversions.rs: a scalar is its own
\* C representation.
I32CReprOf(x) == x

I32AsRust(x) == x

----------------------------------------------------------------------------
(* C strings: the helpers the macros convert_to_c_string_result! and       *)
(* create_rust_string_from! and CString::from_raw_pointer stand for.       *)

\* CString::c_repr_of(s).map(|s| s.into_raw_pointer())
ConvertToCString(h, s) ==
    IF HasNul(s)
    THEN [ok |-> FALSE, heap |-> h, ptr |-> Null]
    ELSE [ok |-> TRUE, heap |-> Alloc(h, "cstr", s \o <<0>>), ptr |-> Len(h) + 1]

\* strlen
StrLen(bytes) ==
    (CHOOSE i \in 1..Len(bytes) :
        bytes[i] = 0 /\ \A j \in 1..(i - 1) : bytes[j] # 0) - 1

Utf8Ok(s) == \A i \in 1..Len(s) : s[i] < 128

\* CStr::raw_borrow(p)?.to_str()?.to_owned()
CreateRustStringFrom(h, p) ==
    IF p = Null
    THEN [ok |-> FALSE, val |-> <<>>]
    ELSE LET bytes == h[p].cells
             s == SubSeq(bytes, 1, StrLen(bytes))
         IN  IF Utf8Ok(s) THEN [ok |-> TRUE, val |-> s]
                          ELSE [ok |-> FALSE, val |-> <<>>]

\* CString::from_raw_pointer(p): takes the string back, to be dropped.
FromRawPointer(h, p) ==
    IF p = Null THEN [ok |-> FALSE, heap |-> h]
                ELSE [ok |-> TRUE, heap |-> Free(h, p)]

----------------------------------------------------------------------------
(* CStringArray *)

\* input.into_iter().map(|s| convert_to_c_string_result!(s)).collect::<Result<..>>():
\* stops at the first element that fails.
RECURSIVE CollectCStrings(_, _, _, _)
CollectCStrings(h, v, i, ptrs) ==
    IF i > Len(v) THEN [ok |-> TRUE, heap |-> h, ptrs |-> ptrs]
    ELSE LET r == ConvertToCString(h, v[i])
         IN  IF ~r.ok THEN [ok |-> FALSE, heap |-> h, ptrs |-> ptrs]
             ELSE CollectCStrings(r.heap, v, i + 1, Append(ptrs, r.ptr))

\* The pointer of Box::into_raw(vec.into_boxed_slice()): an empty Vec owns no
\* block and its pointer is the non-null dangling one.
BoxedSlice(h, tag, cells) ==
    IF cells = <<>> THEN [heap |-> h, ptr |-> Dangling]
                    ELSE [heap |-> Alloc(h, tag, cells), ptr |-> Len(h) + 1]

\* Dropping the Vec collected so far: frees its buffer, if it has one; the
\* elements are raw pointers and dropping them frees nothing.
DropPointerVec(h, ptrs) ==
    IF ptrs = <<>> THEN h ELSE Free(Alloc(h, "ptrs", ptrs), Len(h) + 1)

CStringArrayCReprOf(h, v) ==
    LET size == AsCInt(Limbs(Len(v)))
        c == CollectCStrings(h, v, 1, <<>>)
        b == BoxedSlice(c.heap, "ptrs", c.ptrs)
    IN  IF ~c.ok
        THEN [ok |-> FALSE, heap |-> DropPointerVec(c.heap, c.ptrs), val |-> NoValue]
        ELSE [ok |-> TRUE, heap |-> b.heap, val |-> [data |-> b.ptr, size |-> size]]

\* The `size` pointers at `data`.
SliceCells(h, data, size) ==
    IF size = 0 THEN <<>> ELSE SubSeq(h[data].cells, 1, size)

RECURSIVE RestoreStrings(_, _, _)
RestoreStrings(h, ptrs, acc) ==
    IF ptrs = <<>> THEN [ok |-> TRUE, val |-> acc]
    ELSE LET r == CreateRustStringFrom(h, Head(ptrs))
         IN  IF ~r.ok THEN [ok |-> FALSE, val |-> <<>>]
             ELSE RestoreStrings(h, Tail(ptrs), Append(acc, r.val))

\* A loop that stops one element early.
CStringArrayAsRustShort(h, c) ==
    RestoreStrings(h, SliceCells(h, c.data, IF c.size > 0 THEN c.size - 1 ELSE 0), <<>>)

CStringArrayAsRust(h, c) == RestoreStrings(h, SliceCells(h, c.data, c.size), <<>>)

\* The loop of do_drop: `?` leaves at the first pointer that cannot be taken back.
RECURSIVE FreeStrings(_, _, _)
FreeStrings(h, ptrs, i) ==
    IF i > Len(ptrs) THEN [ok |-> TRUE, heap |-> h, tried |-> 1..Len(ptrs)]
    ELSE LET r == FromRawPointer(h, ptrs[i])
         IN  IF ~r.ok THEN [ok |-> FALSE, heap |-> h, tried |-> 1..i]
             ELSE FreeStrings(r.heap, ptrs, i + 1)

\* Dropping a Box<[T]> rebuilt from (data, size): a zero-length one owns no block.
DropBox(h, data, size) == IF size = 0 THEN h ELSE Free(h, data)

\* y is dropped when do_drop returns, by `?` or at the end of the block.
CStringArrayDoDrop(h, c) ==
    LET f == FreeStrings(h, SliceCells(h, c.data, c.size), 1)
    IN  [ok |-> f.ok, heap |-> DropBox(f.heap, c.data, c.size), tried |-> f.tried]

----------------------------------------------------------------------------
(* CRange<i32>: a native Range is the pair <<start, end>>, the boundary    *)
(* value the record [start, end].                                          *)

\* A conversion that puts the endpoints in order.
CRangeAsRustOrdered(c) ==
    [ok |-> TRUE,
     val |-> IF c.start <= c.end THEN <<I32AsRust(c.start), I32AsRust(c.end)>>
                                 ELSE <<I32AsRust(c.end), I32AsRust(c.start)>>]

CRangeAsRust(c) == [ok |-> TRUE, val |-> <<I32AsRust(c.start), I32AsRust(c.end)>>]

CRangeCReprOf(h, r) ==
    [ok |-> TRUE, heap |-> h,
     val |-> [start |-> I32CReprOf(r[1]), end |-> I32CReprOf(r[2])]]

CRangeDoDrop(h, c) == h

\* Drop for CRange: let _ = self.do_drop()
CRangeDrop(h, c) == CRangeDoDrop(h, c)

----------------------------------------------------------------------------
(* CArray<U>, for the two item types of this file that satisfy its bounds: *)
(* U = CRange<i32> and U = CStringArray.                                   *)

ItemCReprOf(U, h, x) ==
    IF U = "CRange" THEN CRangeCReprOf(h, x) ELSE CStringArrayCReprOf(h, x)

ItemAsRust(U, h, c) ==
    IF U = "CRange" THEN CRangeAsRust(c) ELSE CStringArrayAsRust(h, c)

\* What dropping a U in place runs: CRange implements Drop, CStringArray
\* does not, and its fields are a raw pointer and an integer.
ItemDropInPlace(U, h, c) ==
    IF U = "CRange" THEN CRangeDrop(h, c) ELSE h

RECURSIVE DropItems(_, _, _)
DropItems(U, h, cells) ==
    IF cells = <<>> THEN h
    ELSE DropItems(U, ItemDropInPlace(U, h, Head(cells)), Tail(cells))

\* input.into_iter().map(|item| U::c_repr_of(item)).collect::<Result<Vec<_>, Error>>()
RECURSIVE CollectItems(_, _, _, _, _)
CollectItems(U, h, v, i, items) ==
    IF i > Len(v) THEN [ok |-> TRUE, heap |-> h, items |-> items]
    ELSE LET r == ItemCReprOf(U, h, v[i])
         IN  IF ~r.ok THEN [ok |-> FALSE, heap |-> r.heap, items |-> items]
             ELSE CollectItems(U, r.heap, v, i + 1, Append(items, r.val))

\* Dropping the Vec<U> collected before the failure: its elements, then its buffer.
DropItemVec(U, h, items) ==
    IF items = <<>> THEN h
    ELSE Free(Alloc(DropItems(U, h, items), "items", items),
              Len(DropItems(U, h, items)) + 1)

\* `.expect(..)` on the collected Result: an Err panics.
CArrayCReprOf(U, h, v) ==
    IF Len(v) = 0
    THEN [outcome |-> "Ok", heap |-> h, val |-> [data |-> Null, size |-> 0]]
    ELSE LET c == CollectItems(U, h, v, 1, <<>>)
             b == BoxedSlice(c.heap, "items", c.items)
         IN  IF ~c.ok
             THEN [outcome |-> "panic", heap |-> DropItemVec(U, c.heap, c.items),
                   val |-> NoValue]
             ELSE [outcome |-> "Ok", heap |-> b.heap,
                   val |-> [data |-> b.ptr, size |-> Len(v)]]

RECURSIVE RestoreItems(_, _, _, _)
RestoreItems(U, h, cells, acc) ==
    IF cells = <<>> THEN [ok |-> TRUE, val |-> acc]
    ELSE LET r == ItemAsRust(U, h, Head(cells))
         IN  IF ~r.ok THEN [ok |-> FALSE, val |-> <<>>]
             ELSE RestoreItems(U, h, Tail(cells), Append(acc, r.val))

CArrayAsRust(U, h, c) ==
    IF c.size > 0 THEN RestoreItems(U, h, SliceCells(h, c.data, c.size), <<>>)
                  ELSE [ok |-> TRUE, val |-> <<>>]

\* Box::from_raw(slice::from_raw_parts_mut(data_ptr, size)), dropped at once:
\* each element is dropped in place, then the block is freed.  Nothing calls
\* the elements' do_drop.  (With size = 0 the pointer is null: see CArrayDoDropStep.)
CArrayDoDrop(U, h, c) ==
    DropBox(DropItems(U, h, SliceCells(h, c.data, c.size)), c.data, c.size)

----------------------------------------------------------------------------
(* Inputs *)

StringVecs == SeqsUpTo(Texts, MaxLen)
RangeVecs == SeqsUpTo(Ranges, MaxLen)
StringVecVecs == SeqsUpTo(SeqsUpTo(Texts, MaxInner), MaxOuter)

\* Lengths around 0, c_int::MAX + 1 = 2^31 and 2^32.
LongHis == {0, Limb \div 2 - 1, Limb \div 2, Limb - 1, Limb, Limb + Limb \div 2}
LongLos == (0..WideSpan) \cup ((Limb - 1 - WideSpan)..(Limb - 1))
LongLens == LongHis \X LongLos

\* A Vec<String> of len copies of elem, written [len, elem].
LongVecs == [len : LongLens, elem : Texts]

ItemOf(k) == IF k = "CArray<CRange>" THEN "CRange" ELSE "CStringArray"

IsCArray(k) == k \in {"CArray<CRange>", "CArray<CStringArray>"}

----------------------------------------------------------------------------
(* The state machine *)

Init ==
    /\ pc = "idle"
    /\ kind = "none"
    /\ input = <<>>
    /\ cval = NoValue
    /\ heap = <<>>
    /\ restored = <<>>
    /\ lastOp = "none"
    /\ attempted = {}
    /\ dropResult = "none"
    /\ tampered = FALSE
    /\ released = 0

\* CStringArray::c_repr_of(v), for some Vec<String> v
StringArrayCReprOf ==
    /\ pc = "idle"
    /\ \E v \in StringVecs :
        LET r == CStringArrayCReprOf(heap, v)
        IN  /\ pc' = IF r.ok THEN "live" ELSE "failed"
            /\ heap' = r.heap
            /\ cval' = r.val
            /\ input' = v
    /\ kind' = "CStringArray"
    /\ lastOp' = "c_repr_of"
    /\ UNCHANGED <<restored, attempted, dropResult, tampered, released>>

\* An as_rust that takes each string back (from_raw_pointer) instead of
\* borrowing it, so that the strings it read are freed when it returns.
StringArrayAsRustTakingBack ==
    /\ pc = "live"
    /\ kind = "CStringArray"
    /\ restored' = <<CStringArrayAsRust(heap, cval)>>
    /\ heap' = FreeStrings(heap, SliceCells(heap, cval.data, cval.size), 1).heap
    /\ lastOp' = "as_rust"
    /\ UNCHANGED <<pc, kind, input, cval, attempted, dropResult, tampered, released>>

\* CStringArray::as_rust(&self)
StringArrayAsRust ==
    /\ pc = "live"
    /\ kind = "CStringArray"
    /\ restored' = <<CStringArrayAsRust(heap, cval)>>
    /\ lastOp' = "as_rust"
    /\ UNCHANGED <<pc, kind, input, cval, heap, attempted, dropResult, tampered, released>>

\* The foreign side, which holds the pub fields, stores a null string pointer
\* at index i of the block.
ForeignStoreNull(i) ==
    /\ pc = "live"
    /\ kind = "CStringArray"
    /\ i \in 1..cval.size
    /\ heap[cval.data].cells[i] # Null
    /\ heap' = [heap EXCEPT ![cval.data].cells[i] = Null]
    /\ tampered' = TRUE
    /\ lastOp' = "store"
    /\ UNCHANGED <<pc, kind, input, cval, restored, attempted, dropResult, released>>

\* CStringArray::do_drop(&mut self)
StringArrayDoDrop ==
    /\ pc = "live"
    /\ kind = "CStringArray"
    /\ LET r == CStringArrayDoDrop(heap, cval)
       IN  /\ heap' = r.heap
           /\ attempted' = r.tried
           /\ dropResult' = IF r.ok THEN "Ok" ELSE "Err"
    /\ pc' = "released"
    /\ released' = released + 1
    /\ lastOp' = "do_drop"
    /\ UNCHANGED <<kind, input, cval, restored, tampered>>

\* CArray::<U>::c_repr_of(v), for some v of vecs
CArrayCReprOfStep(k, vecs) ==
    /\ pc = "idle"
    /\ \E v \in vecs :
        LET r == CArrayCReprOf(ItemOf(k), heap, v)
        IN  /\ pc' = IF r.outcome = "Ok" THEN "live" ELSE "panicked"
            /\ heap' = r.heap
            /\ cval' = r.val
            /\ input' = v
    /\ kind' = k
    /\ lastOp' = "c_repr_of"
    /\ UNCHANGED <<restored, attempted, dropResult, tampered, released>>

CArrayRangeCReprOf == CArrayCReprOfStep("CArray<CRange>", RangeVecs)

CArrayStringsCReprOf == CArrayCReprOfStep("CArray<CStringArray>", StringVecVecs)

\* CArray::<U>::as_rust(&self)
CArrayAsRustStep ==
    /\ pc = "live"
    /\ IsCArray(kind)
    /\ restored' = <<CArrayAsRust(ItemOf(kind), heap, cval)>>
    /\ lastOp' = "as_rust"
    /\ UNCHANGED <<pc, kind, input, cval, heap, attempted, dropResult, tampered, released>>

\* The body of CArray::do_drop, ending in `after` or, where its behaviour is
\* undefined, possibly in an abort: slice::from_raw_parts_mut on the null
\* pointer of an empty array, and Box::from_raw on a block already freed.
CArrayDoDropBody(after) ==
    /\ heap' = CArrayDoDrop(ItemOf(kind), heap, cval)
    /\ dropResult' = "Ok"
    /\ IF cval.size = 0 \/ heap[cval.data].frees > 0
       THEN pc' \in {after, "aborted"}
       ELSE pc' = after

\* CArray::do_drop(&mut self), called by the owner
CArrayDoDropStep ==
    /\ pc = "live"
    /\ IsCArray(kind)
    /\ CArrayDoDropBody("released")
    /\ released' = released + 1
    /\ lastOp' = "do_drop"
    /\ UNCHANGED <<kind, input, cval, restored, attempted, tampered>>

\* The value goes out of scope.  CArray implements Drop by calling do_drop;
\* CStringArray has no Drop and nothing runs.
ScopeExit ==
    /\ pc \in {"live", "released"}
    /\ IF IsCArray(kind)
       THEN CArrayDoDropBody("gone")
       ELSE /\ pc' = "gone"
            /\ UNCHANGED <<heap, dropResult>>
    /\ lastOp' = "drop"
    /\ UNCHANGED <<kind, input, cval, restored, attempted, tampered, released>>

\* CStringArray::c_repr_of on a Vec of v.len copies of v.elem.  The block is
\* kept in the same run-length form; the strings are not enumerated.
LongStringArrayCReprOf ==
    /\ pc = "idle"
    /\ \E v \in LongVecs :
        /\ IF v.len # <<0, 0>> /\ HasNul(v.elem)
           THEN /\ pc' = "failed"
                /\ UNCHANGED <<heap, cval>>
           ELSE /\ pc' = "live"
                /\ heap' = IF v.len = <<0, 0>> THEN heap
                           ELSE Alloc(heap, "ptrs", [len |-> v.len, elem |-> v.elem])
                /\ cval' = [data |-> IF v.len = <<0, 0>> THEN Dangling ELSE Len(heap) + 1,
                            size |-> AsCInt(v.len)]
        /\ input' = v
    /\ kind' = "CStringArray(long)"
    /\ lastOp' = "c_repr_of"
    /\ UNCHANGED <<restored, attempted, dropResult, tampered, released>>

\* CStringArray::as_rust on it: `self.size as usize` of a negative size is
\* above isize::MAX, and the slice and the reads through it are undefined:
\* the process dies on the way.  Otherwise the first `size` strings are read.
LongStringArrayAsRust ==
    /\ pc = "live"
    /\ kind = "CStringArray(long)"
    /\ IF cval.size < 0
       THEN /\ pc' = "aborted"
            /\ UNCHANGED restored
       ELSE /\ pc' = pc
            /\ restored' = <<[ok |-> TRUE,
                              val |-> [len |-> Limbs(cval.size), elem |-> input.elem]]>>
    /\ lastOp' = "as_rust"
    /\ UNCHANGED <<kind, input, cval, heap, attempted, dropResult, tampered, released>>

Next ==
    \/ StringArrayCReprOf
    \/ StringArrayAsRust
    \/ \E i \in 1..MaxLen + 1 : ForeignStoreNull(i)
    \/ StringArrayDoDrop
    \/ CArrayRangeCReprOf
    \/ CArrayStringsCReprOf
    \/ CArrayAsRustStep
    \/ CArrayDoDropStep
    \/ ScopeExit
    \/ LongStringArrayCReprOf
    \/ LongStringArrayAsRust

Spec == Init /\ [][Next]_vars

----------------------------------------------------------------------------
(* Properties *)

Addrs == 1..Len(heap)

IsEnumerated(k) == k = "CStringArray" \/ IsCArray(k)

IsStringArray(k) == k \in {"CStringArray", "CStringArray(long)"}

\* The length of a Vec<String> input, in limbs.
InputLen == IF kind = "CStringArray" THEN Limbs(Len(input)) ELSE input.len

\* Some element of the input makes Item::c_repr_of fail.
SomeItemFails ==
    /\ kind = "CArray<CStringArray>"
    /\ \E i \in 1..Len(input) : \E j \in 1..Len(input[i]) : HasNul(input[i][j])

\* C1: a value produced by c_repr_of that was read any number of times,
\* released by exactly one explicit do_drop and then went out of scope has
\* every block of its construction freed exactly once.
C1_EveryBlockFreedOnce ==
    (IsEnumerated(kind) /\ pc = "gone" /\ released = 1 /\ ~tampered)
        => \A a \in Addrs : heap[a].frees = 1

\* C2 (as stated): reading back a constructed Vec<String> gives Ok with the
\* same sequence, whatever its length.
C2_TextRoundTrip ==
    (IsStringArray(kind) /\ lastOp = "as_rust" /\ ~tampered)
        => restored = <<[ok |-> TRUE, val |-> input]>>

\* C2 (amended): reading back a constructed Vec<String> whose length is at
\* most c_int::MAX gives Ok with the same sequence: same length, same
\* elements, same order.
C2_TextRoundTripWithinCInt ==
    (IsStringArray(kind) /\ lastOp = "as_rust" /\ ~tampered /\ FitsCInt(InputLen))
        => restored = <<[ok |-> TRUE, val |-> input]>>

C2_Witness ==
    /\ kind = "CStringArray"
    /\ lastOp = "as_rust"
    /\ ~tampered
    /\ Len(input) = MaxLen
    /\ input[1] # input[2]
    /\ \A i \in 1..Len(input) : ~HasNul(input[i])
    /\ restored # <<>>

\* C3: a value returned by c_repr_of has the null data pointer exactly when
\* its count is zero, for CStringArray and for CArray.
C3_NullIffEmpty ==
    (IsEnumerated(kind) /\ lastOp = "c_repr_of" /\ pc = "live")
        => (cval.data = Null <=> cval.size = 0)

\* C4: when CStringArray::c_repr_of fails on an embedded NUL, nothing it
\* allocated is still live when it returns.
C4_FailedConstructLeavesNothing ==
    (kind = "CStringArray" /\ pc = "failed")
        => \A a \in Addrs : heap[a].frees >= 1

\* C5: when Item::c_repr_of fails for an element, CArray::c_repr_of returns
\* an Err; it does not panic.
C5_ItemFailureIsErr ==
    (lastOp = "c_repr_of" /\ SomeItemFails) => pc = "failed"

\* C6: CStringArray::do_drop attempts a free on every one of its strings,
\* also after one of them failed, and frees the pointer block.
C6_DoDropVisitsAll ==
    (kind = "CStringArray" /\ lastOp = "do_drop")
        => /\ attempted = 1..cval.size
           /\ cval.size > 0 => heap[cval.data].frees = 1

\* C7: for a Vec longer than c_int::MAX, CStringArray::c_repr_of fails or
\* stores c_int::MAX; it stores no other count.
C7_CountFailsOrSaturates ==
    (kind = "CStringArray(long)" /\ lastOp = "c_repr_of" /\ ~FitsCInt(input.len))
        => (pc = "failed" \/ cval.size = CIntMax)

\* C8: as_rust leaves the boundary value as it was: its fields and the heap
\* it owns are unchanged, whether it returns Ok or Err, and an as_rust that
\* follows an as_rust returns the same result.
C8_AsRustLeavesValue ==
    [][lastOp' = "as_rust"
        => /\ cval' = cval
           /\ heap' = heap
           /\ lastOp = "as_rust" => restored' = restored]_vars

C8_Witness ==
    /\ lastOp = "as_rust"
    /\ tampered
    /\ restored # <<>>
    /\ ~restored[1].ok
    /\ \E a \in Addrs : heap[a].tag = "cstr" /\ heap[a].frees = 0

\* C9: CArray::do_drop on a non-empty array releases what each of its
\* elements owns, then the block: nothing the array owned stays live.
C9_DoDropReleasesNested ==
    (IsCArray(kind) /\ lastOp = "do_drop" /\ pc = "released" /\ cval.size > 0)
        => \A a \in Addrs : heap[a].frees >= 1

\* C10: a Vec<Range<i32>>, empty or not, ordered or not, is constructed
\* without failure and read back as Ok with the same ranges in the same order.
C10_RangeArrayRoundTrip ==
    kind = "CArray<CRange>"
        => /\ pc \notin {"failed", "panicked"}
           /\ lastOp = "as_rust" => restored = <<[ok |-> TRUE, val |-> input]>>

C10_Witness ==
    /\ kind = "CArray<CRange>"
    /\ lastOp = "as_rust"
    /\ Len(input) = MaxLen
    /\ input[1] # input[2]
    /\ \E i \in 1..Len(input) : input[i][1] > input[i][2]
    /\ restored # <<>>

====
